---- MODULE Spec2Model ----
(***************************************************************************)
(* Buffering-and-delivery state machine of the TempMate12 temperature      *)
(* logger (src/src/main.cpp): the reading buffer, the delivery pass        *)
(* tryFlushBuffer, the Normal/Fallback mode switch of loop() and the       *)
(* fallback web server with its "/" and "/flush" handlers.                 *)
(*                                                                         *)
(* loop() is single-threaded; it is modelled by its positions (pc): the    *)
(* button poll, then either the Normal-mode tick or the three Fallback     *)
(* steps (handleClient, periodic retry, sampler).  Each step is atomic,    *)
(* as nothing can interleave with it on the device.                        *)
(***************************************************************************)
EXTENDS Integers, Sequences, FiniteSets, TLC

(***************************************************************************)
(* Program constants.                                                      *)
(***************************************************************************)
RESET_PRESS_TIME == 10000
interval == 60000
RetryPeriod == 30000
HTTP_OK == 200

(***************************************************************************)
(* Bounds of the model.                                                    *)
(***************************************************************************)
\* the model follows the device for MaxPeriods retry periods after start-up
MaxPeriods == 3

MaxElapsed == MaxPeriods * RetryPeriod
\* setup() blocks in delay(1000), the WiFi portal and the NTP wait, so the
\* first loop() does not see a clock of 0: the model starts with one sample
\* period already on the clock
BootMillis == interval
\* time that may pass between two reads of the millisecond clock
Deltas == {0, RetryPeriod, interval}
\* status codes HTTPClient may return: transport error, 0, 200, 404
Codes == {-1, 0, 200, 404}
ResetCodes == Codes \cup {201}
\* raw sensor value in 1/16 degree C: 21.125 C
Temps == {338}
\* wall clock (epoch seconds) at the moment of a sample
EpochSecs == {57645, 57660}
Requests == {"none", "/", "/flush", "/other"}

(***************************************************************************)
(* unsigned long is 32 bits wide on the ESP32.  A value is kept as two     *)
(* 16-bit limbs <<hi, lo>> so that arithmetic modulo 2^32 is exact.        *)
(***************************************************************************)
Limb == 2^16

ToU32(n) == <<(n \div Limb) % Limb, n % Limb>>

AddU32(a, n) ==
  LET lo == a[2] + (n % Limb)
      hi == a[1] + (n \div Limb) + (lo \div Limb)
  IN  <<hi % Limb, lo % Limb>>

SubU32(a, b) ==
  LET lo == a[2] - b[2]
      borrow == IF lo < 0 THEN 1 ELSE 0
      hi == a[1] - b[1] - borrow
  IN  <<(hi + 2 * Limb) % Limb, (lo + Limb) % Limb>>

\* unsigned comparison  a >= n  for a constant 0 <= n < 2^31
GeqU32(a, n) ==
  \/ a[1] > n \div Limb
  \/ a[1] = n \div Limb /\ a[2] >= n % Limb

\* a timer that needs more than the period to have passed
TimerDue_Strict(now, previous, period) ==
  LET d == SubU32(now, previous)
  IN  GeqU32(d, period) /\ d # ToU32(period)

\* a timer that reads the difference as a signed long:
\* (long)(now - previous) >= period
TimerDue_Signed(now, previous, period) ==
  LET d == SubU32(now, previous)
  IN  d[1] < Limb \div 2 /\ GeqU32(d, period)

\* now - previous >= period, in unsigned 32-bit arithmetic
TimerDue(now, previous, period) == GeqU32(SubU32(now, previous), period)

(***************************************************************************)
(* Readings and the POST body.                                             *)
(***************************************************************************)
\* The formatted string names a minute (tm_sec is forced to 0); it is
\* modelled by the epoch second at which that minute starts.
getFormattedTimestamp(t) == t - (t % 60)

\* The sensor library builds the temperature from a 16-bit register in steps
\* of 1/128 degree; at the 12-bit resolution of the DS18B20 that is a whole
\* number of sixteenths below 256 degrees in magnitude.
MaxDegree == 255

\* String(float, 2) is dtostrf(value, 4, 2, buf): the sign is taken off,
\* 1/200 is added in double arithmetic, and the digits are written one by one
\* and cut off after the second decimal.  The temperature is in 1/16 degree,
\* the result in 1/100 degree.  A value that is not halfway between two
\* hundredths comes out as the nearer one.  A value exactly halfway (2, 6, 10
\* or 14 sixteenths past a whole degree) comes out as the lower or the upper
\* one, depending on how the sum and the digit steps were rounded to doubles:
\* TieUpAt gives, for each such fraction, the whole degrees 0..MaxDegree at
\* which the upper hundredth is written.
TieUpAt ==
  [frac \in {2, 6, 10, 14} |->
    CASE frac = 2 ->
        
        {0, 22, 27, 84, 89, 94, 99, 164, 184, 189, 200, 202, 204, 206, 208, 210, 217, 219, 221, 223, 225, 227, 229, 231, 233, 235, 242, 244, 246, 248, 250, 252, 254} \cup
        8..10 \cup 12..15 \cup 32..39 \cup 41..44 \cup 46..49 \cup
        51..54 \cup 56..59 \cup 61..63 \cup 117..123 \cup
        142..144 \cup 146..148 \cup 167..169 \cup 171..173 \cup
        192..194 \cup 197..198
      [] frac = 6 ->
        
        {23, 28, 80, 85, 90, 95, 145, 170, 190, 195, 202, 204, 206, 208, 210, 212, 214, 216, 223, 225, 227, 229, 231, 233, 235, 237, 239, 241, 248, 250, 252, 254} \cup
        8..11 \cup 13..15 \cup 32..40 \cup 42..45 \cup 47..50 \cup
        52..55 \cup 57..60 \cup 62..63 \cup 100..104 \cup
        123..129 \cup 148..150 \cup 152..154 \cup 173..175 \cup
        177..179 \cup 198..200
      [] frac = 10 ->
        
        {24, 29, 63, 81, 86, 91, 96, 151, 176, 196, 204, 206, 208, 210, 212, 214, 216, 218, 220, 222, 229, 231, 233, 235, 237, 239, 241, 243, 245, 247, 254} \cup
        8..12 \cup 14..15 \cup 32..41 \cup 43..46 \cup 48..51 \cup
        53..56 \cup 58..61 \cup 104..110 \cup 129..135 \cup
        154..156 \cup 158..160 \cup 179..181 \cup 184..185
      [] OTHER ->
        
        {0, 15, 20, 25, 30, 82, 87, 92, 97, 157, 182, 201, 203, 210, 212, 214, 216, 218, 220, 222, 224, 226, 228, 235, 237, 239, 241, 243, 245, 247, 249, 251, 253} \cup
        8..13 \cup 32..42 \cup 44..47 \cup 49..52 \cup 54..57 \cup
        59..62 \cup 110..116 \cup 135..141 \cup 160..162 \cup
        164..166 \cup 185..187 \cup 190..191]

\* whether the halfway value deg + frac/16 is written as the upper hundredth;
\* defined for the whole degrees 0..MaxDegree only
TieUp ==
  [frac \in {2, 6, 10, 14} |->
    [deg \in 0..MaxDegree |-> deg \in TieUpAt[frac]]]

\* defined for magnitudes below MaxDegree + 1 degrees
Fixed2(temp) ==
  LET mag == IF temp < 0 THEN -temp ELSE temp
      low == (mag * 100) \div 16
      rest == (mag * 100) % 16
      q == IF rest > 8 THEN low + 1
           ELSE IF rest < 8 THEN low
           ELSE IF TieUp[mag % 16][mag \div 16] THEN low + 1
           ELSE low
  IN  IF temp < 0 THEN -q ELSE q

Reading(t, tempC) == [timestamp |-> getFormattedTimestamp(t), temperature |-> tempC]

PostData(r) == [timestamp |-> r.timestamp, temperature |-> Fixed2(r.temperature)]

\* push_back that drops a reading equal to the one before it
push_back_Dedup(buf, r) ==
  IF buf # <<>> /\ buf[Len(buf)] = r THEN buf ELSE Append(buf, r)

\* readingBuffer.push_back(r)
push_back(buf, r) == Append(buf, r)

(***************************************************************************)
(* resetDataOnServer: the result for the status code of GET /reset.        *)
(***************************************************************************)
\* any 2xx status accepted as a successful reset
resetDataOnServer_Any2xx(httpCode) ==
  IF httpCode > 0 THEN httpCode >= 200 /\ httpCode <= 299 ELSE FALSE

resetDataOnServer(httpCode) ==
  IF httpCode > 0 THEN httpCode = HTTP_OK ELSE FALSE

(***************************************************************************)
(* tryFlushBuffer.  resp[i] is the status code the transport returns for   *)
(* the i-th POST if that POST is issued.  The result carries the return    *)
(* value, the buffer afterwards and the POSTs issued (body and code).      *)
(***************************************************************************)
RECURSIVE FlushFrom(_, _, _, _)
FlushFrom(buf, resp, i, posts) ==
  IF i > Len(buf)
  THEN [ok |-> TRUE, buffer |-> <<>>, posts |-> posts]
  ELSE LET r == buf[i]
           postData == PostData(r)
           httpCode == resp[i]
           sent == Append(posts, [body |-> postData, code |-> httpCode])
       IN  IF httpCode <= 0
           THEN [ok |-> FALSE, buffer |-> buf, posts |-> sent]
           ELSE FlushFrom(buf, resp, i + 1, sent)

\* Variants of tryFlushBuffer with one plausible defect each.
\* the buffer is cleared on the failure path too
tryFlushBuffer_ClearOnFail(buf, resp) ==
  LET res == FlushFrom(buf, resp, 1, <<>>)
  IN  [res EXCEPT !.buffer = <<>>]

\* the readings already transmitted are erased when the pass fails
tryFlushBuffer_Trim(buf, resp) ==
  LET res == FlushFrom(buf, resp, 1, <<>>)
  IN  IF res.ok THEN res
      ELSE [res EXCEPT !.buffer = SubSeq(buf, Len(res.posts), Len(buf))]

\* only a 2xx status counts as delivered
RECURSIVE FlushFrom_2xx(_, _, _, _)
FlushFrom_2xx(buf, resp, i, posts) ==
  IF i > Len(buf)
  THEN [ok |-> TRUE, buffer |-> <<>>, posts |-> posts]
  ELSE LET sent == Append(posts, [body |-> PostData(buf[i]), code |-> resp[i]])
       IN  IF resp[i] < 200 \/ resp[i] > 299
           THEN [ok |-> FALSE, buffer |-> buf, posts |-> sent]
           ELSE FlushFrom_2xx(buf, resp, i + 1, sent)

tryFlushBuffer_2xxOnly(buf, resp) ==
  IF buf = <<>>
  THEN [ok |-> TRUE, buffer |-> buf, posts |-> <<>>]
  ELSE FlushFrom_2xx(buf, resp, 1, <<>>)

\* an empty buffer is reported as a failed flush
tryFlushBuffer_EmptyFails(buf, resp) ==
  IF buf = <<>>
  THEN [ok |-> FALSE, buffer |-> buf, posts |-> <<>>]
  ELSE FlushFrom(buf, resp, 1, <<>>)

\* the loop starts at the second reading
tryFlushBuffer_SkipFirst(buf, resp) ==
  IF buf = <<>>
  THEN [ok |-> TRUE, buffer |-> buf, posts |-> <<>>]
  ELSE FlushFrom(buf, resp, 2, <<>>)

\* a failed POST is logged but the loop goes on to the next reading
RECURSIVE FlushFrom_NoAbort(_, _, _, _, _)
FlushFrom_NoAbort(buf, resp, i, posts, good) ==
  IF i > Len(buf)
  THEN [ok |-> good, buffer |-> IF good THEN <<>> ELSE buf, posts |-> posts]
  ELSE FlushFrom_NoAbort(buf, resp, i + 1,
         Append(posts, [body |-> PostData(buf[i]), code |-> resp[i]]),
         good /\ resp[i] > 0)

tryFlushBuffer_NoAbort(buf, resp) ==
  IF buf = <<>>
  THEN [ok |-> TRUE, buffer |-> buf, posts |-> <<>>]
  ELSE FlushFrom_NoAbort(buf, resp, 1, <<>>, TRUE)

\* the loop stops one reading short, and the buffer is cleared all the same
tryFlushBuffer_DropLast(buf, resp) ==
  IF buf = <<>>
  THEN [ok |-> TRUE, buffer |-> buf, posts |-> <<>>]
  ELSE LET res == FlushFrom(SubSeq(buf, 1, Len(buf) - 1), resp, 1, <<>>)
       IN  IF res.ok THEN res ELSE [res EXCEPT !.buffer = buf]

tryFlushBuffer(buf, resp) ==
  IF buf = <<>>
  THEN [ok |-> TRUE, buffer |-> buf, posts |-> <<>>]
  ELSE FlushFrom(buf, resp, 1, <<>>)

\* The transports a pass over buf can meet.  A pass issues no POST after
\* its first failed one, so the codes behind a failure are never read; one
\* representative (the failure code repeated) stands for all of them.
Transports(buf) ==
  {resp \in [1..Len(buf) -> Codes] :
     \A i \in 2..Len(buf) : resp[i - 1] <= 0 => resp[i] = resp[i - 1]}

(***************************************************************************)
(* State.                                                                  *)
(***************************************************************************)
VARIABLES
  pc,              \* position in loop()
  millis,          \* value of the millisecond clock at its latest read
  previousMillis,  \* tick time of the latest sample
  lastRetry,       \* tick time of the latest Fallback retry (static local)
  buttonWasPressed,
  pressStartTime,
  fallbackMode,
  serverRunning,   \* fallbackServer between begin() and stop()
  readingBuffer,
  lastPass,        \* record of the latest delivery pass
  prevPass,        \* summary of the pass before it
  didPass,         \* the latest step ran a delivery pass
  didSample,       \* the latest step ran readAndBufferData
  response,        \* what the fallback server sent in the latest step
  resetResult,     \* outcome of the latest resetDataOnServer call
  pending,         \* readings sampled since the latest successful pass
  elapsed          \* milliseconds since start-up (bounds the model)

vars == <<pc, millis, previousMillis, lastRetry, buttonWasPressed,
          pressStartTime, fallbackMode, serverRunning, readingBuffer,
          lastPass, prevPass, didPass, didSample, response, resetResult,
          pending, elapsed>>

NoPass == [trigger |-> "none", before |-> <<>>, posts |-> <<>>,
           ok |-> TRUE, after |-> <<>>]

PassRecord(trigger, buf, res) ==
  [trigger |-> trigger, before |-> buf, posts |-> res.posts,
   ok |-> res.ok, after |-> res.buffer]

\* what is remembered of a pass once a later pass has run
Summary(pass) ==
  [trigger |-> pass.trigger, before |-> pass.before,
   sent |-> Len(pass.posts), ok |-> pass.ok]

NoReset == [code |-> 0, ok |-> FALSE, called |-> FALSE]

NoResponse == [code |-> 0, text |-> "none", size |-> 0]

Init ==
  /\ pc = "loop"
  /\ millis = ToU32(BootMillis)
  /\ previousMillis = ToU32(0)
  /\ lastRetry = ToU32(0)
  /\ buttonWasPressed = FALSE
  /\ pressStartTime = ToU32(0)
  /\ fallbackMode = FALSE
  /\ serverRunning = FALSE
  /\ readingBuffer = <<>>
  /\ lastPass = NoPass
  /\ prevPass = Summary(NoPass)
  /\ didPass = FALSE
  /\ didSample = FALSE
  /\ response = NoResponse
  /\ resetResult = NoReset
  /\ pending = <<>>
  /\ elapsed = 0

(***************************************************************************)
(* Helpers of the steps.                                                   *)
(***************************************************************************)
\* readAndBufferData: one reading from the sensor value and the wall clock
readAndBufferData(buf, t, tempC) == push_back(buf, Reading(t, tempC))

\* startFallbackServer that begins the server but leaves fallbackMode alone
startFallbackServer_NoFlag(mode, running) ==
  IF mode THEN <<mode, running>> ELSE <<mode, TRUE>>

\* startFallbackServer that sets fallbackMode but never calls begin()
startFallbackServer_NoBegin(mode, running) ==
  IF mode THEN <<mode, running>> ELSE <<TRUE, running>>

\* startFallbackServer on <<fallbackMode, serverRunning>>
startFallbackServer(mode, running) ==
  IF mode THEN <<mode, running>> ELSE <<TRUE, TRUE>>

\* a Normal-mode attempt whose failure does not start Fallback
normalAttempt_NoFallback(buf, resp, mode, running) ==
  [res |-> tryFlushBuffer(buf, resp), fallbackMode |-> mode,
   serverRunning |-> running]

\* loop(), lines 130-132: the delivery attempt of the Normal-mode tick
normalAttempt(buf, resp, mode, running) ==
  LET res == tryFlushBuffer(buf, resp)
      srv == IF ~res.ok THEN startFallbackServer(mode, running)
             ELSE <<mode, running>>
  IN  [res |-> res, fallbackMode |-> srv[1], serverRunning |-> srv[2]]

\* a retry that leaves Fallback whatever tryFlushBuffer returned
retryAttempt_AlwaysExit(buf, resp, mode, running) ==
  [res |-> tryFlushBuffer(buf, resp), fallbackMode |-> FALSE,
   serverRunning |-> FALSE]

\* a retry that delivers the Store but forgets to leave Fallback
retryAttempt_StayFallback(buf, resp, mode, running) ==
  [res |-> tryFlushBuffer(buf, resp), fallbackMode |-> mode,
   serverRunning |-> running]

\* loop(), lines 113-117: the delivery attempt of the Fallback retry
retryAttempt(buf, resp, mode, running) ==
  LET res == tryFlushBuffer(buf, resp)
  IN  IF res.ok
      THEN [res |-> res, fallbackMode |-> FALSE, serverRunning |-> FALSE]
      ELSE [res |-> res, fallbackMode |-> mode, serverRunning |-> running]

\* a "/flush" handler that reports success but stays in Fallback
flushHandler_NoExit(buf, resp, mode, running) ==
  LET ok == tryFlushBuffer(buf, resp)
  IN  [res |-> ok, code |-> 200,
       text |-> IF ok.ok THEN "Flush succeeded, exiting fallback mode."
                ELSE "Flush failed, still in fallback mode.",
       fallbackMode |-> mode, serverRunning |-> running]

\* the "/flush" handler registered by startFallbackServer
flushHandler(buf, resp, mode, running) ==
  LET ok == tryFlushBuffer(buf, resp)
  IN  IF ok.ok
      THEN [res |-> ok, code |-> 200,
            text |-> "Flush succeeded, exiting fallback mode.",
            fallbackMode |-> FALSE, serverRunning |-> FALSE]
      ELSE [res |-> ok, code |-> 200,
            text |-> "Flush failed, still in fallback mode.",
            fallbackMode |-> mode, serverRunning |-> running]

\* the "/" handler registered by startFallbackServer
statusHandler(buf) ==
  [code |-> 200, text |-> "Fallback Mode", size |-> Len(buf)]

\* the latest pass becomes the previous one
RecordPass(trigger, buf, res) ==
  /\ prevPass' = Summary(lastPass)
  /\ lastPass' = PassRecord(trigger, buf, res)
  /\ didPass' = TRUE

NoPassThisStep ==
  /\ didPass' = FALSE
  /\ UNCHANGED <<lastPass, prevPass>>

(***************************************************************************)
(* The variable millis holds the value that millis() returned when the     *)
(* program last called it; elapsed is the time that has passed on the       *)
(* clock since the start.  ReadClock(dt) is a call of millis() that finds   *)
(* the clock dt ms further than the previous call did.                      *)
(***************************************************************************)
ReadClock(dt) ==
  /\ elapsed + dt <= MaxElapsed
  /\ elapsed' = elapsed + dt
  /\ millis' = AddU32(millis, dt)

(***************************************************************************)
(* loop(), lines 83-104: the reset button.  The clock is read only on an   *)
(* edge: at line 87 when the button goes down, at line 91 when it comes up. *)
(***************************************************************************)
PollButton ==
  /\ pc = "loop"
  /\ \E currentlyPressed \in BOOLEAN :
       IF currentlyPressed /\ ~buttonWasPressed
       THEN /\ \E dt \in Deltas : ReadClock(dt)
            /\ buttonWasPressed' = TRUE
            /\ pressStartTime' = millis'
            /\ resetResult' = NoReset
       ELSE IF ~currentlyPressed /\ buttonWasPressed
       THEN /\ \E dt \in Deltas : ReadClock(dt)
            /\ buttonWasPressed' = FALSE
            /\ UNCHANGED pressStartTime
            /\ LET pressDuration == SubU32(millis', pressStartTime)
               IN  IF GeqU32(pressDuration, RESET_PRESS_TIME)
                   THEN \E httpCode \in ResetCodes :
                          resetResult' = [code |-> httpCode,
                                          ok |-> resetDataOnServer(httpCode),
                                          called |-> TRUE]
                   ELSE resetResult' = NoReset
       ELSE /\ UNCHANGED <<buttonWasPressed, pressStartTime, millis, elapsed>>
            /\ resetResult' = NoReset
  /\ pc' = IF fallbackMode THEN "handleClient" ELSE "normal"
  /\ didSample' = FALSE
  /\ response' = NoResponse
  /\ NoPassThisStep
  /\ UNCHANGED <<previousMillis, lastRetry, fallbackMode, serverRunning,
                 readingBuffer, pending>>

(***************************************************************************)
(* loop(), line 107: fallbackServer.handleClient() serves at most one      *)
(* request, with the handlers registered in startFallbackServer.           *)
(***************************************************************************)
HandleClient ==
  /\ pc = "handleClient"
  /\ \E request \in Requests :
       CASE request = "none" ->
              /\ response' = NoResponse
              /\ NoPassThisStep
              /\ UNCHANGED <<fallbackMode, serverRunning, readingBuffer, pending>>
         [] request = "/" ->
              /\ response' = statusHandler(readingBuffer)
              /\ NoPassThisStep
              /\ UNCHANGED <<fallbackMode, serverRunning, readingBuffer, pending>>
         [] request = "/flush" ->
              \E resp \in Transports(readingBuffer) :
                LET h == flushHandler(readingBuffer, resp, fallbackMode,
                                      serverRunning)
                IN  /\ RecordPass("flush", readingBuffer, h.res)
                    /\ readingBuffer' = h.res.buffer
                    /\ response' = [code |-> h.code, text |-> h.text, size |-> 0]
                    /\ fallbackMode' = h.fallbackMode
                    /\ serverRunning' = h.serverRunning
                    /\ pending' = IF h.res.ok THEN <<>> ELSE pending
         [] OTHER ->
              /\ response' = [code |-> 404, text |-> "Not found", size |-> 0]
              /\ NoPassThisStep
              /\ UNCHANGED <<fallbackMode, serverRunning, readingBuffer, pending>>
  /\ pc' = "retry"
  /\ didSample' = FALSE
  /\ resetResult' = NoReset
  /\ UNCHANGED <<millis, previousMillis, lastRetry, buttonWasPressed,
                 pressStartTime, elapsed>>

(***************************************************************************)
(* loop(), lines 108-118: the periodic retry of the Fallback branch; now   *)
(* is the clock value read at line 109, after handleClient has returned.   *)
(***************************************************************************)
FallbackRetry ==
  /\ pc = "retry"
  /\ \E dt \in Deltas : ReadClock(dt)
  /\ LET now == millis'
     IN  IF TimerDue(now, lastRetry, RetryPeriod)
         THEN /\ lastRetry' = now
              /\ \E resp \in Transports(readingBuffer) :
                   LET a == retryAttempt(readingBuffer, resp, fallbackMode,
                                         serverRunning)
                   IN  /\ RecordPass("retry", readingBuffer, a.res)
                       /\ readingBuffer' = a.res.buffer
                       /\ fallbackMode' = a.fallbackMode
                       /\ serverRunning' = a.serverRunning
                       /\ pending' = IF a.res.ok THEN <<>> ELSE pending
         ELSE /\ NoPassThisStep
              /\ UNCHANGED <<lastRetry, readingBuffer, fallbackMode,
                             serverRunning, pending>>
  /\ pc' = "sample"
  /\ didSample' = FALSE
  /\ response' = NoResponse
  /\ resetResult' = NoReset
  /\ UNCHANGED <<previousMillis, buttonWasPressed, pressStartTime>>

\* a Fallback branch that leaves sampling to the Normal-mode tick
FallbackSample_Suspended ==
  /\ pc = "sample"
  /\ pc' = "loop"
  /\ didSample' = FALSE
  /\ response' = NoResponse
  /\ resetResult' = NoReset
  /\ NoPassThisStep
  /\ UNCHANGED <<millis, previousMillis, lastRetry, buttonWasPressed,
                 pressStartTime, fallbackMode, serverRunning, readingBuffer,
                 pending, elapsed>>

(***************************************************************************)
(* loop(), lines 119-123: the sampler of the Fallback branch; now is the   *)
(* clock value read at line 109.                                           *)
(***************************************************************************)
FallbackSample ==
  /\ pc = "sample"
  /\ LET now == millis
     IN  IF TimerDue(now, previousMillis, interval)
         THEN /\ previousMillis' = now
              /\ \E t \in EpochSecs, tempC \in Temps :
                   /\ readingBuffer' = readAndBufferData(readingBuffer, t, tempC)
                   /\ pending' = Append(pending, Reading(t, tempC))
              /\ didSample' = TRUE
         ELSE /\ didSample' = FALSE
              /\ UNCHANGED <<previousMillis, readingBuffer, pending>>
  /\ pc' = "loop"
  /\ response' = NoResponse
  /\ resetResult' = NoReset
  /\ NoPassThisStep
  /\ UNCHANGED <<millis, lastRetry, buttonWasPressed, pressStartTime,
                 fallbackMode, serverRunning, elapsed>>

\* a Normal-mode tick that samples and leaves delivery for later
NormalTick_SampleOnly ==
  /\ pc = "normal"
  /\ \E dt \in Deltas : ReadClock(dt)
  /\ LET now == millis'
     IN  IF TimerDue(now, previousMillis, interval)
         THEN /\ previousMillis' = now
              /\ didSample' = TRUE
              /\ \E t \in EpochSecs, tempC \in Temps :
                   /\ readingBuffer' = readAndBufferData(readingBuffer, t, tempC)
                   /\ pending' = Append(pending, Reading(t, tempC))
         ELSE /\ didSample' = FALSE
              /\ UNCHANGED <<previousMillis, readingBuffer, pending>>
  /\ pc' = "loop"
  /\ response' = NoResponse
  /\ resetResult' = NoReset
  /\ NoPassThisStep
  /\ UNCHANGED <<lastRetry, buttonWasPressed, pressStartTime,
                 fallbackMode, serverRunning>>

(***************************************************************************)
(* loop(), lines 126-133: the Normal-mode tick; now is the clock value     *)
(* read at line 126.                                                       *)
(***************************************************************************)
NormalTick ==
  /\ pc = "normal"
  /\ \E dt \in Deltas : ReadClock(dt)
  /\ LET now == millis'
     IN  IF TimerDue(now, previousMillis, interval)
         THEN /\ previousMillis' = now
              /\ didSample' = TRUE
              /\ \E t \in EpochSecs, tempC \in Temps :
                   LET buf == readAndBufferData(readingBuffer, t, tempC)
                   IN  \E resp \in Transports(buf) :
                         LET a == normalAttempt(buf, resp, fallbackMode,
                                                serverRunning)
                         IN  /\ RecordPass("normal", buf, a.res)
                             /\ readingBuffer' = a.res.buffer
                             /\ fallbackMode' = a.fallbackMode
                             /\ serverRunning' = a.serverRunning
                             /\ pending' = IF a.res.ok THEN <<>>
                                           ELSE Append(pending, Reading(t, tempC))
         ELSE /\ didSample' = FALSE
              /\ NoPassThisStep
              /\ UNCHANGED <<previousMillis, readingBuffer, fallbackMode,
                             serverRunning, pending>>
  /\ pc' = "loop"
  /\ response' = NoResponse
  /\ resetResult' = NoReset
  /\ UNCHANGED <<lastRetry, buttonWasPressed, pressStartTime>>

Next ==
  \/ PollButton
  \/ HandleClient
  \/ FallbackRetry
  \/ FallbackSample
  \/ NormalTick

Spec == Init /\ [][Next]_vars

(***************************************************************************)
(* The same program some 49.7 days after boot, one sample period before    *)
(* the millisecond clock wraps from 2^32 - 1 to 0.  The last sample was    *)
(* taken and delivered half a sample period earlier.  The last retry was   *)
(* long ago: at clock value 2^31 - 30000 (LongAgo), which is 2^31 ms       *)
(* before the first tick at which a retry can run, or at clock value 2^17  *)
(* (SoonAfterBoot), two minutes after boot and almost 2^32 ms ago.         *)
(***************************************************************************)
WrapStart == SubU32(ToU32(0), ToU32(interval))

LongAgo == <<Limb \div 2 - 1, Limb - RetryPeriod>>

SoonAfterBoot == <<2, 0>>

WrapInit ==
  /\ pc = "loop"
  /\ millis = WrapStart
  /\ previousMillis = SubU32(WrapStart, ToU32(RetryPeriod))
  /\ lastRetry \in {LongAgo, SoonAfterBoot}
  /\ buttonWasPressed = FALSE
  /\ pressStartTime = ToU32(0)
  /\ fallbackMode = FALSE
  /\ serverRunning = FALSE
  /\ readingBuffer = <<>>
  /\ lastPass = NoPass
  /\ prevPass = Summary(NoPass)
  /\ didPass = FALSE
  /\ didSample = FALSE
  /\ response = NoResponse
  /\ resetResult = NoReset
  /\ pending = <<>>
  /\ elapsed = 0

WrapSpec == WrapInit /\ [][Next]_vars

\* the read of the clock that every Fallback iteration of loop() makes at
\* line 109 finds a later value than the read before it
ClockAdvances == FallbackRetry /\ elapsed' > elapsed

\* loop() is called again and again, and the clock keeps advancing (as far
\* as the model follows it)
LiveSpec == Spec /\ WF_vars(Next) /\ SF_vars(ClockAdvances)

(***************************************************************************)
(* Properties.                                                             *)
(***************************************************************************)
\* a delivery pass has run
Passed == lastPass.trigger # "none"

\* the i-th POST of the latest pass was judged failed: the pass stopped
\* there and returned false
JudgedFailed(i) == ~lastPass.ok /\ i = Len(lastPass.posts)

\* C1: after a delivery pass the Store is empty (the pass returned Success)
\* or equal to the Store before the pass (it returned Failure), whatever
\* the transport answered and however many items went out before a failure.
C1_AllOrNothingClear ==
  /\ Passed =>
       \/ lastPass.ok /\ lastPass.after = <<>>
       \/ ~lastPass.ok /\ lastPass.after = lastPass.before
  /\ didPass => readingBuffer = lastPass.after

\* a pass that transmitted its first item and then failed left the Store as
\* it was
C1_Witness ==
  /\ didPass /\ ~lastPass.ok
  /\ Len(lastPass.posts) >= 2
  /\ readingBuffer = lastPass.before

\* C2: Mode = Fallback exactly when the latest completed delivery attempt
\* failed; a failed Normal-mode attempt puts the system in Fallback with the
\* Store unchanged.
C2_ModeTransition ==
  /\ fallbackMode <=> (Passed /\ ~lastPass.ok)
  /\ (didPass /\ lastPass.trigger = "normal" /\ ~lastPass.ok) =>
       (fallbackMode /\ readingBuffer = lastPass.before)

\* the Normal-mode attempt has just failed, after an earlier Fallback episode
\* was left by a successful pass
C2_Witness ==
  /\ didPass /\ lastPass.trigger = "normal" /\ ~lastPass.ok
  /\ prevPass.trigger \in {"retry", "flush"} /\ prevPass.ok
  /\ fallbackMode

\* C3 as stated: a transmission is judged failed exactly when the status
\* code is negative.
C3_NegativeOnly ==
  Passed => \A i \in 1..Len(lastPass.posts) :
              JudgedFailed(i) <=> lastPass.posts[i].code < 0

\* C3, amended: a transmission is judged failed exactly when the status code
\* is zero or negative; after every positive code, 404 included, the pass
\* goes on to the next Reading (or ends with Success after the last one).
C3_PerItemPolicy ==
  Passed => \A i \in 1..Len(lastPass.posts) :
              /\ JudgedFailed(i) <=> lastPass.posts[i].code <= 0
              /\ lastPass.posts[i].code > 0 =>
                   IF i < Len(lastPass.before)
                   THEN /\ i < Len(lastPass.posts)
                        /\ lastPass.posts[i + 1].body = PostData(lastPass.before[i + 1])
                   ELSE lastPass.ok

\* a 404 let the pass go on, and a status of 0 then failed it
C3_Witness ==
  /\ Passed /\ ~lastPass.ok
  /\ Len(lastPass.posts) = 2
  /\ lastPass.posts[1].code = 404
  /\ lastPass.posts[2].code = 0

\* pass N (prevPass) transmitted k items and failed on item k+1
PrevSent == prevPass.sent - 1
PrevFailedAfterSome ==
  prevPass.trigger # "none" /\ ~prevPass.ok /\ PrevSent >= 1

\* pass N+1 (lastPass) transmitted item i of pass N again
Retransmitted(i) ==
  /\ i <= Len(lastPass.posts)
  /\ lastPass.posts[i].body = PostData(prevPass.before[i])
  /\ ~JudgedFailed(i)

\* C4 as stated: after a pass that transmitted items 1..k and failed on k+1,
\* the next pass transmits items 1..k again.
C4_AlwaysRetransmits ==
  (Passed /\ PrevFailedAfterSome) => \A i \in 1..PrevSent : Retransmitted(i)

\* C4, amended: the next pass starts again at item 1 of the same Store
\* (readings sampled since are behind it) and POSTs in Store order up to its
\* own first failure; items 1..k are all transmitted again whenever that
\* failure, if there is one, comes after item k.
C4_Redelivery ==
  (Passed /\ PrevFailedAfterSome) =>
    /\ Len(lastPass.before) >= Len(prevPass.before)
    /\ SubSeq(lastPass.before, 1, Len(prevPass.before)) = prevPass.before
    /\ lastPass.posts # <<>>
    /\ \A i \in 1..Len(lastPass.posts) :
         lastPass.posts[i].body = PostData(lastPass.before[i])
    /\ (lastPass.ok \/ Len(lastPass.posts) > PrevSent) =>
         \A i \in 1..PrevSent : Retransmitted(i)

\* the pass after a partial failure got past the items already transmitted
C4_Witness ==
  /\ Passed /\ PrevFailedAfterSome
  /\ Len(lastPass.posts) > PrevSent
  /\ Retransmitted(1)

\* C5: a delivery pass over an empty Store returns Success, issues no POST
\* and leaves the Store empty.
C5_EmptyShortCircuit ==
  (Passed /\ lastPass.before = <<>>) =>
    /\ lastPass.ok
    /\ lastPass.posts = <<>>
    /\ lastPass.after = <<>>
    /\ didPass => readingBuffer = <<>>

\* the periodic retry ran on a Store the manual trigger had just emptied
C5_Witness ==
  /\ didPass /\ lastPass.before = <<>>
  /\ lastPass.trigger = "retry"
  /\ prevPass.trigger = "flush" /\ prevPass.ok

\* the step removed a Reading from the Store or changed one in place
StoreCut ==
  \/ Len(readingBuffer') < Len(readingBuffer)
  \/ SubSeq(readingBuffer', 1, Len(readingBuffer)) # readingBuffer

\* C6: the Store is exactly the Readings sampled since the latest fully
\* successful pass, in insertion order; only a successful pass removes
\* Readings, and it removes all of them.
C6_StoreContent ==
  /\ [](readingBuffer = pending)
  /\ [][StoreCut => (didPass' /\ lastPass'.ok /\ readingBuffer' = <<>>)]_vars

\* two equal Readings are both kept, behind an older one or not
C6_Witness ==
  /\ Len(readingBuffer) = 2
  /\ readingBuffer[1] = readingBuffer[2]
  /\ readingBuffer = pending

\* C7: a pass over Store [r1..rn] issues one POST per Reading in Store
\* order, the i-th carrying ri's timestamp and two-decimal temperature; a
\* successful pass issues exactly n.
C7_WireOrder ==
  Passed =>
    /\ Len(lastPass.posts) <= Len(lastPass.before)
    /\ \A i \in 1..Len(lastPass.posts) :
         /\ lastPass.posts[i].body.timestamp = lastPass.before[i].timestamp
         /\ lastPass.posts[i].body.temperature
              = Fixed2(lastPass.before[i].temperature)
    /\ lastPass.ok => Len(lastPass.posts) = Len(lastPass.before)

\* a successful pass over two different Readings
C7_Witness ==
  /\ Passed /\ lastPass.ok
  /\ Len(lastPass.before) = 2
  /\ lastPass.before[1] # lastPass.before[2]
  /\ Len(lastPass.posts) = 2

FlushOkText == "Flush succeeded, exiting fallback mode."
FlushFailText == "Flush failed, still in fallback mode."

\* C8: GET /flush runs one delivery pass; on Success the reply says so, the
\* Store is empty, Mode is Normal and the status service is stopped; on
\* Failure the reply says so, Mode stays Fallback and the Store is unchanged.
C8_ManualTrigger ==
  /\ (response.text \in {FlushOkText, FlushFailText}) =>
       (didPass /\ lastPass.trigger = "flush")
  /\ (didPass /\ lastPass.trigger = "flush") =>
       IF lastPass.ok
       THEN /\ response.text = FlushOkText
            /\ readingBuffer = <<>>
            /\ ~fallbackMode
            /\ ~serverRunning
       ELSE /\ response.text = FlushFailText
            /\ fallbackMode
            /\ readingBuffer = lastPass.before

\* a manual trigger has just delivered a Store of two Readings
C8_Witness ==
  /\ didPass /\ lastPass.trigger = "flush" /\ lastPass.ok
  /\ Len(lastPass.before) = 2
  /\ response.text = FlushOkText

\* C9: the status service runs exactly while Mode = Fallback, and loop()
\* polls it exactly in the iterations that found Mode = Fallback.
C9_ServiceIffFallback ==
  /\ serverRunning <=> fallbackMode
  /\ pc = "handleClient" => fallbackMode /\ serverRunning
  /\ pc = "normal" => ~fallbackMode /\ ~serverRunning

\* the service was stopped by a manual trigger and started again by the
\* next failed Normal-mode attempt
C9_Witness ==
  /\ serverRunning /\ fallbackMode
  /\ lastPass.trigger = "normal"
  /\ prevPass.trigger = "flush" /\ prevPass.ok

\* C10: a step takes Mode from Fallback to Normal only by a retry or manual
\* trigger that returned Success in that step; a failed retry or manual
\* trigger leaves Mode = Fallback; a step without a delivery pass leaves
\* Mode alone.
C10_NormalOnlyOnSuccess ==
  [][ /\ (fallbackMode /\ ~fallbackMode') =>
           (didPass' /\ lastPass'.ok /\ lastPass'.trigger \in {"retry", "flush"})
      /\ (didPass' /\ ~lastPass'.ok /\ lastPass'.trigger \in {"retry", "flush"}) =>
           (fallbackMode /\ fallbackMode')
      /\ ~didPass' => fallbackMode' = fallbackMode ]_vars

\* the periodic retry has just delivered the Store and left Fallback
C10_Witness ==
  /\ didPass /\ lastPass.trigger = "retry" /\ lastPass.ok
  /\ lastPass.before # <<>>
  /\ ~fallbackMode

\* the model still follows the clock for one more retry period
TimeLeft == elapsed + RetryPeriod <= MaxElapsed

\* C11: retries are not counted or given up: from any Fallback state,
\* as long as loop() keeps running and the clock keeps advancing, either a
\* later transport call fails again or a delivery attempt returns Success,
\* empties the Store and puts Mode back to Normal.
C11_EventualRecovery ==
  (fallbackMode /\ ~didPass /\ TimeLeft) ~>
    \/ didPass /\ lastPass.ok /\ readingBuffer = <<>> /\ ~fallbackMode
    \/ didPass /\ ~lastPass.ok

\* a retry delivered the Store after the retry before it had failed
C11_Witness ==
  /\ didPass /\ lastPass.ok /\ lastPass.trigger = "retry"
  /\ lastPass.before # <<>> /\ readingBuffer = <<>> /\ ~fallbackMode
  /\ prevPass.trigger = "retry" /\ ~prevPass.ok

\* C12: the reset reports success exactly when the status of GET /reset is
\* 200; a transport error and every other status, other 2xx included, is a
\* failure.  The call makes one request and changes nothing else.
C12_ResetResult ==
  /\ resetResult.called => (resetResult.ok <=> resetResult.code = HTTP_OK)
  /\ resetResult.called =>
       (~didPass /\ ~didSample /\ readingBuffer = pending)

\* a reset answered with 201 was reported as failed
C12_Witness ==
  /\ resetResult.called
  /\ resetResult.code = 201
  /\ ~resetResult.ok

\* C13: a failed pass stops at its first failed transmission: the k items
\* before it went through, it is the last POST of the pass, and the pass
\* returns Failure; no pass issues more POSTs than the Store had Readings.
C13_AbortAtFirstFailure ==
  Passed =>
    /\ Len(lastPass.posts) <= Len(lastPass.before)
    /\ \A i \in 1..(Len(lastPass.posts) - 1) : lastPass.posts[i].code > 0
    /\ ~lastPass.ok =>
         /\ lastPass.posts # <<>>
         /\ lastPass.posts[Len(lastPass.posts)].code <= 0
    /\ lastPass.ok =>
         \A i \in 1..Len(lastPass.posts) : lastPass.posts[i].code > 0

\* the first of two Readings failed and the second was never attempted
C13_Witness ==
  /\ Passed /\ ~lastPass.ok
  /\ Len(lastPass.before) = 2
  /\ Len(lastPass.posts) = 1

\* C14: Readings leave the Store only in a pass that transmitted every one
\* of them with success; a Reading sampled in the step of a pass was
\* appended before the pass started, so it is among those transmitted.
C14_NoLossOnClear ==
  [][ /\ (StoreCut \/ (didPass' /\ lastPass'.ok)) =>
           /\ didPass' /\ lastPass'.ok
           /\ readingBuffer' = <<>>
           /\ Len(lastPass'.before) >= Len(readingBuffer)
           /\ SubSeq(lastPass'.before, 1, Len(readingBuffer)) = readingBuffer
           /\ Len(lastPass'.posts) = Len(lastPass'.before)
           /\ \A i \in 1..Len(lastPass'.before) :
                /\ lastPass'.posts[i].body = PostData(lastPass'.before[i])
                /\ lastPass'.posts[i].code > 0
      /\ (didPass' /\ didSample') =>
           Len(lastPass'.before) = Len(readingBuffer) + 1
      /\ (didPass' /\ ~didSample') => lastPass'.before = readingBuffer
    ]_vars

\* a retry has just delivered and removed two Readings
C14_Witness ==
  /\ didPass /\ lastPass.ok /\ lastPass.trigger = "retry"
  /\ Len(lastPass.before) = 2 /\ Len(lastPass.posts) = 2
  /\ readingBuffer = <<>>

\* a 32-bit clock value read as a two's-complement number: the difference of
\* two such readings is the time between them when they are less than 2^31 ms
\* apart, whether or not the clock wrapped in between
Signed32(x) ==
  IF x[1] >= Limb \div 2 THEN (x[1] - Limb) * Limb + x[2]
  ELSE x[1] * Limb + x[2]

\* C15 as stated: whenever a Reading is appended while Mode is Normal, a
\* delivery attempt follows in the same iteration (a sample without an attempt
\* happens in Fallback only).
C15_AttemptAfterEverySample ==
  (didSample /\ ~didPass) => fallbackMode

\* C15: a Reading appended by a Normal-mode tick is followed at once, in the
\* same tick, by a delivery attempt that includes it; the sampler of the
\* Fallback branch appends without an attempt, and when it finds Mode Normal
\* it is because a retry or /flush of this iteration has just left Fallback
\* with an empty Store.
C15_NormalTickCadence ==
  [][ /\ (pc = "normal" /\ didSample') =>
           /\ didPass' /\ lastPass'.trigger = "normal"
           /\ Len(lastPass'.before) = Len(readingBuffer) + 1
           /\ SubSeq(lastPass'.before, 1, Len(readingBuffer)) = readingBuffer
      /\ (pc = "sample" /\ didSample') =>
           /\ ~didPass'
           /\ Len(readingBuffer') = Len(readingBuffer) + 1
           /\ SubSeq(readingBuffer', 1, Len(readingBuffer)) = readingBuffer
      /\ (pc = "sample" /\ didSample' /\ ~fallbackMode) =>
           /\ lastPass.ok /\ lastPass.trigger \in {"retry", "flush"}
           /\ readingBuffer = <<>>
    ]_vars

\* back in Normal mode after a Fallback episode, a tick sampled a Reading and
\* attempted its delivery
C15_Witness ==
  /\ didSample /\ didPass /\ lastPass.trigger = "normal"
  /\ prevPass.trigger \in {"retry", "flush"} /\ prevPass.ok

\* C16: the first periodic retry of a Fallback episode comes no sooner than a
\* retry period after the failed Normal-mode attempt that started the episode
\* (previousMillis is the tick time of that attempt, lastRetry of the retry).
C16_FirstRetryWaits ==
  (/\ didPass /\ lastPass.trigger = "retry"
   /\ prevPass.trigger = "normal" /\ ~prevPass.ok) =>
     Signed32(lastRetry) - Signed32(previousMillis) >= RetryPeriod

\* the first retry of an episode ran at the tick time of the failed attempt
C16_Witness ==
  /\ didPass /\ lastPass.trigger = "retry"
  /\ prevPass.trigger = "normal" /\ ~prevPass.ok
  /\ lastRetry = previousMillis

\* C17: in every Fallback iteration the periodic retry runs exactly when at
\* least the 30 s retry period has passed since the tick time of the previous
\* retry, and records its own tick time; nothing else changes that time, so
\* consecutive retries are at least 30 s apart however many have failed.
C17_FixedRetryPeriod ==
  [][ /\ pc = "retry" =>
           /\ (didPass' /\ lastPass'.trigger = "retry") <=>
                (Signed32(millis') - Signed32(lastRetry) >= RetryPeriod)
           /\ didPass' => lastRetry' = millis'
           /\ ~didPass' => lastRetry' = lastRetry
      /\ pc # "retry" => lastRetry' = lastRetry
    ]_vars

\* a retry failed one period after the retry before it had failed
C17_Witness ==
  /\ didPass /\ lastPass.trigger = "retry" /\ ~lastPass.ok
  /\ prevPass.trigger = "retry" /\ ~prevPass.ok

\* C18: in every iteration, Normal or Fallback, the sampler runs exactly when
\* at least 60 s have passed since the tick time of its previous run; a run
\* appends one Reading and records its tick time, and no other step (button,
\* web request, retry, mode change) touches that time.
C18_SamplerCadence ==
  [][ /\ pc \in {"normal", "sample"} =>
           /\ didSample' <=>
                (Signed32(millis') - Signed32(previousMillis) >= interval)
           /\ didSample' => previousMillis' = millis'
           /\ ~didSample' =>
                (previousMillis' = previousMillis /\ readingBuffer' = readingBuffer)
      /\ (pc = "sample" /\ didSample') =>
           Len(readingBuffer') = Len(readingBuffer) + 1
      /\ (pc = "normal" /\ didSample') =>
           Len(lastPass'.before) = Len(readingBuffer) + 1
      /\ pc \notin {"normal", "sample"} =>
           (~didSample' /\ previousMillis' = previousMillis)
    ]_vars

\* the Store grew to two Readings while delivery kept failing in Fallback
C18_Witness ==
  /\ didSample /\ ~didPass /\ fallbackMode
  /\ Len(readingBuffer) = 2

\* C19: in Normal mode the Store holds at most one Reading, and it holds one
\* only after a retry or /flush has left Fallback and the sampler of that
\* same iteration appended it; larger backlogs exist only in Fallback.
C19_BoundedBacklog ==
  /\ ~fallbackMode => Len(readingBuffer) <= 1
  /\ (~fallbackMode /\ readingBuffer # <<>>) =>
       (lastPass.ok /\ lastPass.trigger \in {"retry", "flush"})

\* an iteration ended in Normal mode with one Reading pending
C19_Witness ==
  /\ pc = "loop" /\ ~fallbackMode
  /\ Len(readingBuffer) = 1

\* The time since boot at which a clock value was read, as <<hi, lo>> with
\* hi not reduced modulo 2^16.  Every clock value of WrapSpec was read between
\* 2^17 ms and 2^32 + 2^17 ms after boot, so a value below 2^17 was read
\* after the wrap.
TrueTime(v) == IF v[1] < 2 THEN <<v[1] + Limb, v[2]>> ELSE v

\* the time from the reading of previous to the reading of now is at least 0
\* and below 2^32 ms
ElapsedInRange(now, previous) ==
  LET n == TrueTime(now)
      p == TrueTime(previous)
  IN  /\ n[1] > p[1] \/ (n[1] = p[1] /\ n[2] >= p[2])
      /\ n[1] - p[1] < Limb \/ (n[1] - p[1] = Limb /\ n[2] < p[2])

\* that time is at least period ms, by plain (not modular) arithmetic on the
\* times since boot
ElapsedAtLeast(now, previous, period) ==
  LET n == TrueTime(now)
      p == TrueTime(previous)
      lo == p[2] + (period % Limb)
      hi == p[1] + (period \div Limb) + (lo \div Limb)
  IN  n[1] > hi \/ (n[1] = hi /\ n[2] >= lo % Limb)

\* C20: whenever the true time since the previous run of a timer is below
\* 2^32 ms, the sampler runs exactly when that time is at least 60 s and the
\* retry exactly when it is at least 30 s, whether or not the millisecond
\* clock wrapped in between and also when that time is 2^31 ms or more: the
\* wrap causes neither a spurious run nor a missed one.
C20_WrapAround ==
  /\ [](ElapsedInRange(millis, lastRetry)
        /\ ElapsedInRange(millis, previousMillis))
  /\ [][ /\ pc = "retry" =>
              (didPass' <=> ElapsedAtLeast(millis', lastRetry, RetryPeriod))
         /\ pc \in {"normal", "sample"} =>
              (didSample' <=> ElapsedAtLeast(millis', previousMillis, interval))
       ]_vars

\* the first retry since the start has run, after the clock wrapped: the
\* retry before it was more than 2^31 ms earlier; the Reading whose delivery
\* failed is still in the Store
C20_Witness ==
  /\ pc = "sample" /\ didPass /\ lastPass.trigger = "retry"
  /\ prevPass.trigger = "normal" /\ ~prevPass.ok
  /\ elapsed = interval /\ millis = ToU32(0) /\ lastRetry = millis
  /\ readingBuffer # <<>>

====
